---- MODULE Spec2Model ----
(***************************************************************************)
(* Build-time compilation step of nlprule (src/compile/impls.rs):          *)
(*   - Tokenizer::from_xml   the disambiguation rule pipeline              *)
(*   - Rules::from_xml       the grammar rule pipeline                     *)
(*   - AndAtom::and, OrAtom::or, NotAtom::not, OffsetAtom::new             *)
(*   - Quantifier::new, Composition::new                                   *)
(*   - TextMatcher::new, PosMatcher::new, Matcher::needs_graph             *)
(*                                                                         *)
(* Strings are sequences of text chunks, so that format!() is a real       *)
(* concatenation.  Option<T> is a sequence of length at most one.          *)
(***************************************************************************)
EXTENDS Integers, Sequences, FiniteSets, TLC

VARIABLES
    pc,          \* position of the running constructor
    options,     \* TokenizerOptions / RulesOptions
    defs,        \* definitions the reader has yielded so far, in order
    rules,       \* the rule list collected by filter_map
    error,       \* Tokenizer::from_xml: `let mut error = None`
    errors,      \* Rules::from_xml: `let mut errors: HashMap<String, usize>`
    compiled,    \* indices on which from_rule_structure has been invoked
    result,      \* the value returned by the constructor, None while running
    warned,      \* messages passed to warn!()
    stack,       \* atoms built so far by the smart constructors
    last,        \* the last constructor call: its arguments and result
    parts,       \* Vec<Part> handed to Composition::new
    composition, \* the Composition built, None before
    tagger,      \* BuildInfo: the tagger's word store and tag store
    regex_cache, \* BuildInfo: the regex cache, matcher hash -> Option<set of ids>
    scanned,     \* the vocabulary scans done so far: matcher and collected set
    scan         \* the vocabulary scan in progress, None when there is none

vars == <<pc, options, defs, rules, error, errors, compiled, result, warned,
          stack, last, parts, composition, tagger, regex_cache, scanned, scan>>

pipelineVars == <<options, defs, rules, error, errors, compiled, result, warned>>
atomVars == <<stack, last>>
compVars == <<parts, composition>>
buildVars == <<tagger, regex_cache, scanned, scan>>

----------------------------------------------------------------------------
(* Bounds *)

MaxDefs == 3         \* definitions read by Tokenizer::from_xml
MaxRuleDefs == 3     \* definitions read by Rules::from_xml
MaxDefaultDefs == 1  \* definitions read when the default attributes vary
MaxNodes == 4        \* nodes of all the atoms held at one time
MaxParts == 3        \* parts of a Composition
MaxQuant == 1        \* largest min or max handed to Quantifier::new
VocabSize == 102     \* entries of the tagger's word store
MaxCalls == 3        \* calls of TextMatcher::new and PosMatcher::new in one build
MaxChunks == 4       \* pieces the parallel iterator splits the vocabulary into
MaxScanCalls == 2    \* calls of TextMatcher::new whose scan is followed piece by piece

----------------------------------------------------------------------------
(* Option<T> and strings *)

None == <<>>
Some(v) == <<v>>
IsSome(o) == o # None
Unwrap(o) == o[1]

\* no BuildInfo is in use
NoBuild == tagger = None /\ regex_cache = <<>> /\ scanned = <<>> /\ scan = None

Digit == <<"0", "1", "2", "3", "4", "5", "6", "7", "8", "9">>

RECURSIVE Display(_)
\* `{}` of an unsigned integer: its decimal digits
Display(n) == IF n < 10 THEN <<Digit[n + 1]>>
              ELSE Display(n \div 10) \o <<Digit[(n % 10) + 1]>>

\* format!("{}.{}", group.id, group.n)
FormatGroupId(group) == group.id \o <<".">> \o Display(group.n)

\* format!("[Rule] {}", x)
FormatRuleError(x) == <<"[Rule] ">> \o x

\* format!("[Structure] {}", x)
FormatStructureError(x) == <<"[Structure] ">> \o x

\* format!("Error constructing Disambiguator: {}", x)
FormatDisambiguatorError(x) == <<"Error constructing Disambiguator: ">> \o x

----------------------------------------------------------------------------
(* Inputs of the disambiguation pipeline *)

ExplicitIds == {<<"A">>}
Groups == {[id |-> <<"G">>, n |-> 3, name |-> <<"group name">>, default |-> None]}
ParseMessages == {<<"m1">>, <<"m2">>}
BuildMessages == {<<"m1">>}

\* one item of read_disambiguation_rules: Err(x) or Ok((rule_structure, group, _));
\* `build` is what DisambiguationRule::from_rule_structure returns for it
DisambiguationDefs ==
    {[tag |-> "Err", x |-> m] : m \in ParseMessages}
    \cup [tag : {"Ok"},
          id : {None} \cup {Some(i) : i \in ExplicitIds},
          group : {None} \cup {Some(g) : g \in Groups},
          build : {None} \cup {Some(m) : m \in BuildMessages}]

TokenizerOptionsSet ==
    [ids : {{}, {<<"A">>}},
     ignore_ids : {{}, {<<"G", ".", "3">>}},
     allow_errors : BOOLEAN]

----------------------------------------------------------------------------
(* Identity resolution and filtering, shared by both pipelines *)

HasId(x) == IsSome(x.id) \/ IsSome(x.group)


ResolveIdGroupFirst(x) ==
    IF IsSome(x.group) THEN FormatGroupId(Unwrap(x.group)) ELSE Unwrap(x.id)

\* rule_structure.id.as_ref().map_or_else(|| format!(..group..), |x| x.clone())
ResolveId(x) ==
    IF IsSome(x.id) THEN Unwrap(x.id) ELSE FormatGroupId(Unwrap(x.group))

\* (options.ids.is_empty() || options.ids.contains(&id)) && !options.ignore_ids.contains(&id)
IdAllowed(opts, id) ==
    (opts.ids = {} \/ id \in opts.ids) /\ id \notin opts.ignore_ids

----------------------------------------------------------------------------
(* Tokenizer::from_xml *)

TokKeepIgnoringError(err, opts, id) == IdAllowed(opts, id)

\* the condition under which a built disambiguation rule is kept
TokKeep(err, opts, id) == err = None /\ IdAllowed(opts, id)

TokRecordFirst(err, msg) == IF err = None THEN Some(msg) ELSE err

\* error = Some(msg)
TokRecord(err, msg) == Some(msg)

TokReturnAlwaysOk(err, opts, rs) == [tag |-> "Ok", rules |-> rs]

\* the value Tokenizer::from_xml returns once the iterator is exhausted
TokReturn(err, opts, rs) ==
    IF IsSome(err) /\ ~opts.allow_errors
    THEN [tag |-> "Err", x |-> FormatDisambiguatorError(Unwrap(err))]
    ELSE [tag |-> "Ok", rules |-> rs]

InitTokenizer ==
    /\ pc = "tokenizer"
    /\ options \in TokenizerOptionsSet
    /\ defs = <<>>
    /\ rules = <<>>
    /\ error = None
    /\ errors = <<>>
    /\ compiled = <<>>
    /\ result = None
    /\ warned = <<>>
    /\ stack = <<>>
    /\ last = None
    /\ parts = <<>>
    /\ composition = None
    /\ NoBuild

\* the filter_map closure on an item that parsed: Ok((rule_structure, group, _))
TokOk(x) ==
    /\ x.tag = "Ok"
    /\ defs' = Append(defs, x)
    /\ IF ~HasId(x)
       THEN \* group.expect("must have group if ID not set")
            /\ pc' = "panicked"
            /\ UNCHANGED <<rules, error, compiled>>
       ELSE LET id == ResolveId(x)
                i == Len(defs) + 1
            IN /\ pc' = pc
               /\ compiled' = Append(compiled, i)
               /\ IF x.build = None
                  THEN /\ rules' = IF TokKeep(error, options, id)
                                   THEN Append(rules, [id |-> id, src |-> i])
                                   ELSE rules
                       /\ error' = error
                  ELSE /\ error' = TokRecord(error, FormatRuleError(Unwrap(x.build)))
                       /\ rules' = rules

\* the filter_map closure on an item that failed to parse: Err(x)
TokErr(x) ==
    /\ x.tag = "Err"
    /\ defs' = Append(defs, x)
    /\ error' = TokRecord(error, FormatStructureError(x.x))
    /\ UNCHANGED <<pc, rules, compiled>>

TokStopAfterError(x) ==
    IF IsSome(error)
    THEN defs' = Append(defs, x) /\ UNCHANGED <<pc, rules, error, compiled>>
    ELSE TokOk(x) \/ TokErr(x)

\* one call of the filter_map closure
TokClosure(x) == TokOk(x) \/ TokErr(x)

\* the iterator yields the next definition and the closure runs on it
TokStep ==
    /\ pc = "tokenizer"
    /\ Len(defs) < MaxDefs
    /\ \E x \in DisambiguationDefs : TokClosure(x)
    /\ UNCHANGED <<options, errors, result, warned>>
    /\ UNCHANGED atomVars
    /\ UNCHANGED compVars
    /\ UNCHANGED buildVars

\* the iterator is exhausted: `if let Some(x) = error { .. }` and the return
TokFinish ==
    /\ pc = "tokenizer"
    /\ pc' = "returned"
    /\ result' = Some(TokReturn(error, options, rules))
    /\ warned' = IF IsSome(error) /\ options.allow_errors
                 THEN Append(warned, FormatDisambiguatorError(Unwrap(error)))
                 ELSE warned
    /\ UNCHANGED <<options, defs, rules, error, errors, compiled>>
    /\ UNCHANGED atomVars
    /\ UNCHANGED compVars
    /\ UNCHANGED buildVars

NextTokenizer == TokStep \/ TokFinish

SpecTokenizer == InitTokenizer /\ [][NextTokenizer]_vars

----------------------------------------------------------------------------
(* Inputs of the grammar rule pipeline *)

Defaults == {None, Some(<<"off">>), Some(<<"on">>)}

GroupsWith(ds) ==
    [id : {<<"G">>}, n : {3}, name : {<<"group name">>}, default : ds]

CategoriesWith(ds) ==
    [id : {<<"CAT">>}, name : {<<"category name">>}, kind : {Some(<<"style">>)},
     default : ds]

\* one item of read_rules: Err(x) or Ok((rule_structure, group, category));
\* `build` is what Rule::from_rule_structure returns for it
GrammarDefsWith(ids, names, ruleDefaults, groupDefaults, categoryDefaults, builds) ==
    {[tag |-> "Err", x |-> m] : m \in ParseMessages}
    \cup [tag : {"Ok"},
          id : ids,
          name : names,
          default : ruleDefaults,
          group : {None} \cup {Some(g) : g \in GroupsWith(groupDefaults)},
          category : {None} \cup {Some(c) : c \in CategoriesWith(categoryDefaults)},
          build : builds]

\* definitions varying in identity, presence of group and category, and outcome
GrammarDefs ==
    GrammarDefsWith({None} \cup {Some(i) : i \in ExplicitIds},
                    {None, Some(<<"rule name">>)},
                    {None}, {None}, {None},
                    {None} \cup {Some(m) : m \in BuildMessages})

\* definitions varying in the default attribute of rule, group and category
DefaultDefs ==
    GrammarDefsWith({Some(i) : i \in ExplicitIds},
                    {Some(<<"rule name">>)},
                    Defaults, Defaults, Defaults,
                    {None})

RulesOptionsSet ==
    [ids : {{}, {<<"A">>}},
     ignore_ids : {{}, {<<"G", ".", "3">>}}]

----------------------------------------------------------------------------
(* Rules::from_xml *)

\* Option::map(|x| x == "off")
MapIsOff(o) == IF IsSome(o) THEN Some(Unwrap(o) = <<"off">>) ELSE None

\* Option::or_else
OrElse(a, b) == IF IsSome(a) THEN a ELSE b

\* Option::unwrap_or
UnwrapOr(a, d) == IF IsSome(a) THEN Unwrap(a) ELSE d

OffIfAnyOff(x) ==
    \/ x.default = Some(<<"off">>)
    \/ (IsSome(x.group) /\ Unwrap(x.group).default = Some(<<"off">>))
    \/ Unwrap(x.category).default = Some(<<"off">>)

OffCategoryBeforeGroup(x) ==
    UnwrapOr(
        OrElse(OrElse(MapIsOff(x.default),
                      MapIsOff(Unwrap(x.category).default)),
               IF IsSome(x.group) THEN MapIsOff(Unwrap(x.group).default) ELSE None),
        FALSE)

\* `let off = rule_structure.default.map(..).or_else(group..).or_else(category..).unwrap_or(false)`
Off(x) ==
    UnwrapOr(
        OrElse(OrElse(MapIsOff(x.default),
                      IF IsSome(x.group) THEN MapIsOff(Unwrap(x.group).default) ELSE None),
               MapIsOff(Unwrap(x.category).default)),
        FALSE)

\* rule_structure.name.as_ref().map_or_else(|| group.name.clone(), |x| x.clone())
ResolveName(x) == IF IsSome(x.name) THEN Unwrap(x.name) ELSE Unwrap(x.group).name

RulesKeepUntilError(errs, opts, id) == errs = <<>> /\ IdAllowed(opts, id)

\* the condition under which a built grammar rule is kept
RulesKeep(errs, opts, id) == IdAllowed(opts, id)

\* *errors.entry(msg).or_insert(0) += 1
Count(errs, msg) ==
    IF msg \in DOMAIN errs THEN [errs EXCEPT ![msg] = @ + 1]
    ELSE errs @@ (msg :> 1)

InitRules ==
    /\ pc = "rules"
    /\ options \in RulesOptionsSet
    /\ defs = <<>>
    /\ rules = <<>>
    /\ error = None
    /\ errors = <<>>
    /\ compiled = <<>>
    /\ result = None
    /\ warned = <<>>
    /\ stack = <<>>
    /\ last = None
    /\ parts = <<>>
    /\ composition = None
    /\ NoBuild

RulesPanicsCategoryAfterBuild(x) ==
    \/ ~HasId(x)
    \/ (x.category = None /\ x.build = None)
    \/ (x.name = None /\ x.group = None)

\* the three expect() calls that precede Rule::from_rule_structure
RulesPanics(x) ==
    \/ ~HasId(x)                          \* expect("must have group if ID not set")
    \/ x.category = None                  \* expect("grammar rules must have category")
    \/ (x.name = None /\ x.group = None)  \* expect("must have group if name not set")

\* the filter_map closure on an item that parsed: Ok((rule_structure, group, category))
RulesOk(x) ==
    /\ x.tag = "Ok"
    /\ defs' = Append(defs, x)
    /\ IF RulesPanics(x)
       THEN /\ pc' = "panicked"
            /\ UNCHANGED <<rules, errors, compiled>>
       ELSE LET id == ResolveId(x)
                category == Unwrap(x.category)
                i == Len(defs) + 1
            IN /\ pc' = pc
               /\ compiled' = Append(compiled, i)
               /\ IF x.build = None
                  THEN /\ rules' = IF RulesKeep(errors, options, id)
                                   THEN Append(rules,
                                               [id |-> id,
                                                name |-> ResolveName(x),
                                                on |-> ~Off(x),
                                                category_id |-> category.id,
                                                category_name |-> category.name,
                                                category_type |-> category.kind,
                                                src |-> i])
                                   ELSE rules
                       /\ errors' = errors
                  ELSE /\ errors' = Count(errors, FormatRuleError(Unwrap(x.build)))
                       /\ rules' = rules

\* the filter_map closure on an item that failed to parse: Err(x)
RulesErr(x) ==
    /\ x.tag = "Err"
    /\ defs' = Append(defs, x)
    /\ errors' = Count(errors, FormatStructureError(x.x))
    /\ UNCHANGED <<pc, rules, compiled>>

\* one call of the filter_map closure
RulesClosure(x) == RulesOk(x) \/ RulesErr(x)

\* the iterator yields the next definition and the closure runs on it
RulesStepOver(universe, max) ==
    /\ pc = "rules"
    /\ Len(defs) < max
    /\ \E x \in universe : RulesClosure(x)
    /\ UNCHANGED <<options, error, result, warned>>
    /\ UNCHANGED atomVars
    /\ UNCHANGED compVars
    /\ UNCHANGED buildVars

RulesStep == RulesStepOver(GrammarDefs, MaxRuleDefs)

\* the entries of the error map in some order sorted by descending count:
\* HashMap iteration order is unspecified and sort_by_key is stable
SortedErrors(errs) ==
    {s \in [1..Cardinality(DOMAIN errs) -> {<<m, errs[m]>> : m \in DOMAIN errs}] :
        /\ \A k \in DOMAIN s : \A l \in DOMAIN s : k # l => s[k] # s[l]
        /\ \A k \in DOMAIN s : \A l \in DOMAIN s : k < l => s[k][2] >= s[l][2]}

\* the iterator is exhausted: the warning, and `Rules { rules }`
RulesFinish ==
    /\ pc = "rules"
    /\ pc' = "returned"
    /\ result' = Some([tag |-> "Ok", rules |-> rules])
    /\ IF DOMAIN errors # {}
       THEN \E s \in SortedErrors(errors) : warned' = Append(warned, s)
       ELSE warned' = warned
    /\ UNCHANGED <<options, defs, rules, error, errors, compiled>>
    /\ UNCHANGED atomVars
    /\ UNCHANGED compVars
    /\ UNCHANGED buildVars

NextRules == RulesStep \/ RulesFinish

SpecRules == InitRules /\ [][NextRules]_vars

\* Rules::from_xml on definitions whose default attributes vary
EnabledStep == RulesStepOver(DefaultDefs, MaxDefaultDefs)

NextEnabled == EnabledStep \/ RulesFinish

SpecEnabled == InitRules /\ [][NextEnabled]_vars

\* either constructor, for what the two pipelines share
InitPipelines == InitTokenizer \/ InitRules

NextPipelines == TokStep \/ TokFinish \/ RulesStep \/ RulesFinish

SpecPipelines == InitPipelines /\ [][NextPipelines]_vars

----------------------------------------------------------------------------
(* Atom algebra: the smart constructors *)

TrueAtom == [kind |-> "TrueAtom"]
FalseAtom == [kind |-> "FalseAtom"]

\* a leaf atom of the collaborator (a text or part-of-speech matcher)
MatcherAtom == [kind |-> "MatcherAtom"]

LeafAtoms == {TrueAtom, FalseAtom, MatcherAtom}
Offsets == {-1, 1}

AndKeepingTrue(atoms) ==
    IF atoms = <<>> THEN TrueAtom
    ELSE IF Len(atoms) = 1 THEN atoms[1]
    ELSE [kind |-> "AndAtom", atoms |-> atoms]

\* AndAtom::and
AndAtom_and(atoms0) ==
    LET atoms == SelectSeq(atoms0, LAMBDA x : x.kind # "TrueAtom")
    IN IF atoms = <<>> THEN TrueAtom
       ELSE IF Len(atoms) = 1 THEN atoms[1]
       ELSE [kind |-> "AndAtom", atoms |-> atoms]

\* OrAtom::or
OrAtom_or(atoms0) ==
    LET atoms == SelectSeq(atoms0, LAMBDA x : x.kind # "FalseAtom")
    IN IF atoms = <<>> THEN FalseAtom
       ELSE IF Len(atoms) = 1 THEN atoms[1]
       ELSE [kind |-> "OrAtom", atoms |-> atoms]

NotAlwaysWrapping(atom) == [kind |-> "NotAtom", atom |-> atom]

\* NotAtom::not
NotAtom_not(atom) ==
    CASE atom.kind = "TrueAtom" -> FalseAtom
      [] atom.kind = "FalseAtom" -> TrueAtom
      [] OTHER -> [kind |-> "NotAtom", atom |-> atom]

\* OffsetAtom::new
OffsetAtom_new(atom, offset) ==
    [kind |-> "OffsetAtom", atom |-> atom, offset |-> offset]

\* the direct children of an atom
Children(a) ==
    CASE a.kind \in {"AndAtom", "OrAtom"} -> a.atoms
      [] a.kind \in {"NotAtom", "OffsetAtom"} -> <<a.atom>>
      [] OTHER -> <<>>

RECURSIVE Nodes(_)
RECURSIVE NodesOfAll(_)
Nodes(a) == 1 + NodesOfAll(Children(a))
NodesOfAll(as) == IF as = <<>> THEN 0 ELSE Nodes(Head(as)) + NodesOfAll(Tail(as))

\* the last n atoms built, and what is below them
Top(n) == SubSeq(stack, Len(stack) - n + 1, Len(stack))
Below(n) == SubSeq(stack, 1, Len(stack) - n)

InitAtoms ==
    /\ pc = "atoms"
    /\ stack = <<>>
    /\ last = None
    /\ options = None
    /\ defs = <<>>
    /\ rules = <<>>
    /\ error = None
    /\ errors = <<>>
    /\ compiled = <<>>
    /\ result = None
    /\ warned = <<>>
    /\ parts = <<>>
    /\ composition = None
    /\ NoBuild

\* a constructor call that takes `args` off the built atoms and leaves `atom`
Built(op, n, atom) ==
    /\ pc = "atoms"
    /\ n <= Len(stack)
    /\ NodesOfAll(Append(Below(n), atom)) <= MaxNodes
    /\ stack' = Append(Below(n), atom)
    /\ last' = Some([op |-> op, args |-> Top(n), result |-> atom])
    /\ UNCHANGED pc
    /\ UNCHANGED pipelineVars
    /\ UNCHANGED compVars
    /\ UNCHANGED buildVars

\* a leaf atom: TrueAtom {}, FalseAtom {} or a matcher atom
Leaf == \E a \in LeafAtoms : Built("leaf", 0, a)

\* AndAtom::and(atoms) on the last n atoms built
And == \E n \in 0..Len(stack) : Built("and", n, AndAtom_and(Top(n)))

\* OrAtom::or(atoms) on the last n atoms built
Or == \E n \in 0..Len(stack) : Built("or", n, OrAtom_or(Top(n)))

\* NotAtom::not(atom) on the last atom built
Not == Len(stack) >= 1 /\ Built("not", 1, NotAtom_not(Top(1)[1]))

\* OffsetAtom::new(atom, offset) on the last atom built
Offset ==
    /\ Len(stack) >= 1
    /\ \E o \in Offsets : Built("offset", 1, OffsetAtom_new(Top(1)[1], o))

NextAtoms == Leaf \/ And \/ Or \/ Not \/ Offset

SpecAtoms == InitAtoms /\ [][NextAtoms]_vars

----------------------------------------------------------------------------
(* Quantifier::new and Composition::new *)

\* assert!(max >= min)
QuantifierValidStrict(min, max) == max > min

CanStopMaskOwnPart(ps) ==
    [p \in 1..Len(ps) |-> ps[p].quantifier.min = 0]

CanStopMaskPrefix(ps) ==
    [p \in 1..Len(ps) |-> \A q \in 1..p : ps[q].quantifier.min = 0]

QuantifierValid(min, max) == max >= min

\* Quantifier { min, max }
Quantifier_new(min, max) == [min |-> min, max |-> max]

\* DefaultHashMap::insert
Insert(map, k, v) == (k :> v) @@ map

GroupIdsCountingEveryPart(ps) ==
    (0 :> 0) @@ [k \in {q \in 1..Len(ps) : ps[q].visible} |-> k]

RECURSIVE GroupIdsLoop(_, _, _, _)
\* `for (i, part) in parts.iter().enumerate()`, from index i on
GroupIdsLoop(ps, i, map, current_id) ==
    IF i = Len(ps) THEN map
    ELSE IF ps[i + 1].visible
         THEN GroupIdsLoop(ps, i + 1, Insert(map, current_id, i + 1), current_id + 1)
         ELSE GroupIdsLoop(ps, i + 1, map, current_id)

\* group_ids_to_idx as Composition::new builds it
GroupIdsToIdx(ps) == GroupIdsLoop(ps, 0, Insert(<<>>, 0, 0), 1)

\* (0..parts.len()).map(|i| parts[i..].iter().all(|x| x.quantifier.min == 0)).collect()
CanStopMask(ps) ==
    [p \in 1..Len(ps) |-> \A q \in p..Len(ps) : ps[q].quantifier.min = 0]

\* Composition::new
Composition_new(ps) ==
    [parts |-> ps,
     group_ids_to_idx |-> GroupIdsToIdx(ps),
     can_stop_mask |-> CanStopMask(ps)]

InitComposition ==
    /\ pc = "parts"
    /\ parts = <<>>
    /\ composition = None
    /\ options = None
    /\ defs = <<>>
    /\ rules = <<>>
    /\ error = None
    /\ errors = <<>>
    /\ compiled = <<>>
    /\ result = None
    /\ warned = <<>>
    /\ stack = <<>>
    /\ last = None
    /\ NoBuild

\* a Part { atom, quantifier: Quantifier::new(min, max), visible } is added
AddPart ==
    /\ pc = "parts"
    /\ Len(parts) < MaxParts
    /\ \E min \in 0..MaxQuant : \E max \in 0..MaxQuant : \E visible \in BOOLEAN :
          /\ last' = Some([op |-> "quantifier", args |-> <<min, max>>])
          /\ IF QuantifierValid(min, max)
             THEN /\ parts' = Append(parts, [atom |-> MatcherAtom,
                                             quantifier |-> Quantifier_new(min, max),
                                             visible |-> visible])
                  /\ pc' = pc
             ELSE /\ pc' = "panicked"
                  /\ parts' = parts
    /\ UNCHANGED <<composition, stack>>
    /\ UNCHANGED pipelineVars
    /\ UNCHANGED buildVars

\* Composition::new(parts)
NewComposition ==
    /\ pc = "parts"
    /\ pc' = "composed"
    /\ composition' = Some(Composition_new(parts))
    /\ UNCHANGED parts
    /\ UNCHANGED pipelineVars
    /\ UNCHANGED atomVars
    /\ UNCHANGED buildVars

NextComposition == AddPart \/ NewComposition

SpecComposition == InitComposition /\ [][NextComposition]_vars

----------------------------------------------------------------------------
(* Matcher, and the tagger's stores *)

\* either::Either
Left(v) == [either |-> "Left", left |-> v]
Right(v) == [either |-> "Right", right |-> v]

EmptyText == <<>>

\* the k-th word of the vocabulary, k >= 1
Word(k) == <<"w">> \o Display(k)

\* the word store: the empty word and the words w1, w2, .. with their ids
WordStore ==
    {<<EmptyText, 0>>} \cup {<<Word(k), k>> : k \in 1..(VocabSize - 1)}

\* tag stores: tag string -> tag id, the ids being 0 .. len - 1
TagStores ==
    { {<<EmptyText, 0>>, <<<<"N">>, 1>>, <<<<"V">>, 2>>},
      {<<<<"V">>, 0>>, <<<<"N">>, 1>>} }

\* a regex, by its pattern and the texts it matches
Regex(pattern, lo, hi) ==
    [pattern |-> pattern, language |-> {Word(k) : k \in lo..hi}]

\* Matcher::new_regex
Matcher_new_regex(regex, negate, empty_always_false) ==
    [matcher |-> Right(regex),
     negate |-> negate,
     case_sensitive |-> TRUE,
     empty_always_false |-> empty_always_false]

\* Matcher::new_string
Matcher_new_string(string_or_idx, negate, case_sensitive, empty_always_false) ==
    [matcher |-> Left(string_or_idx),
     negate |-> negate,
     case_sensitive |-> case_sensitive,
     empty_always_false |-> empty_always_false]

NeedsGraphOfAnyString(m) == m.matcher.either = "Left"

\* Matcher::needs_graph: matches!(&self.matcher, either::Left(either::Right(_)))
NeedsGraph(m) ==
    m.matcher.either = "Left" /\ m.matcher.left.either = "Right"

\* char::to_lowercase on the letters of the tags
LowerChar(c) == CASE c = "N" -> "n" [] c = "V" -> "v" [] OTHER -> c
ToLower(text) == [i \in DOMAIN text |-> LowerChar(text[i])]

\* Matcher::is_match on a matcher that needs no graph
IsMatch(m, text) ==
    IF m.empty_always_false /\ text = EmptyText THEN FALSE
    ELSE LET base ==
                 IF m.matcher.either = "Right"
                 THEN text \in m.matcher.right.language
                 ELSE IF m.case_sensitive
                      THEN m.matcher.left.left = text
                      ELSE ToLower(m.matcher.left.left) = ToLower(text)
         IN IF m.negate THEN ~base ELSE base

\* the matchers handed to TextMatcher::new: regexes of one word, of exactly
\* 100 words and of 101 words, a literal string and an index
TextMatchers ==
    {Matcher_new_regex(Regex("w1", 1, 1), n, e) : n \in BOOLEAN, e \in BOOLEAN}
    \cup {Matcher_new_regex(Regex("w(1..100)", 1, 100), FALSE, FALSE),
          Matcher_new_regex(Regex("w(1..101)", 1, 101), FALSE, FALSE),
          Matcher_new_regex(Regex("w(1..101)", 1, 101), TRUE, TRUE),
          Matcher_new_string(Left(Word(1)), FALSE, TRUE, FALSE),
          Matcher_new_string(Right(1), FALSE, TRUE, FALSE)}

\* the matchers handed to PosMatcher::new
PosMatchers ==
    {Matcher_new_string(Left(<<"n">>), n, c, TRUE) : n \in BOOLEAN, c \in BOOLEAN}
    \cup {Matcher_new_regex([pattern |-> "N|V", language |-> {<<"N">>, <<"V">>}],
                            TRUE, FALSE)}

----------------------------------------------------------------------------
(* TextMatcher::new and PosMatcher::new *)

\* `if set.len() > 100`
RegexSetCutoff == 100

\* matcher_hash: what is written to the hasher, in order
Hash(m) == <<m.matcher.right.pattern, m.negate, m.empty_always_false>>

\* the ids of the words of the store that the matcher matches
Scan(m, word_store) ==
    {q[2] : q \in {r \in word_store : IsMatch(m, r[1])}}

CutoffAtHundred(set) ==
    IF Cardinality(set) >= RegexSetCutoff THEN None ELSE Some(set)

\* let set = if set.len() > 100 { None } else { Some(set) }
Cutoff(set) ==
    IF Cardinality(set) > RegexSetCutoff THEN None ELSE Some(set)

TextMatcherNeverCaching(m, tg, cache) ==
    IF m.matcher.either = "Right"
    THEN [set |-> Cutoff(Scan(m, tg.word_store)), cache |-> cache, lookup |-> "miss"]
    ELSE [set |-> None, cache |-> cache, lookup |-> "none"]

\* TextMatcher::new: the set, the cache afterwards, and how the cache was used
TextMatcher_new(m, tg, cache) ==
    IF NeedsGraph(m)
    THEN [set |-> None, cache |-> cache, lookup |-> "none"]
    ELSE IF m.matcher.either = "Right"
         THEN IF Hash(m) \in DOMAIN cache
              THEN [set |-> cache[Hash(m)], cache |-> cache, lookup |-> "hit"]
              ELSE LET set == Cutoff(Scan(m, tg.word_store))
                   IN [set |-> set,
                       cache |-> Insert(cache, Hash(m), set),
                       lookup |-> "miss"]
         ELSE [set |-> None, cache |-> cache, lookup |-> "none"]

RECURSIVE PosMaskLoop(_, _, _)
\* `for (word, id) in info.tagger().tag_store().iter() { mask[id] = .. }`
PosMaskLoop(m, todo, mask) ==
    IF todo = {} THEN mask
    ELSE LET q == CHOOSE r \in todo : TRUE
         IN PosMaskLoop(m, todo \ {q}, [mask EXCEPT ![q[2]] = IsMatch(m, q[1])])

PosMatcherByReverseId(m, tg) ==
    LET len == Cardinality(tg.tag_store)
    IN [mask |-> [i \in 0..(len - 1) |->
                     \E q \in tg.tag_store : q[2] = len - 1 - i /\ IsMatch(m, q[1])]]

\* PosMatcher::new
PosMatcher_new(m, tg) ==
    LET len == Cardinality(tg.tag_store)
    IN [mask |-> PosMaskLoop(m, tg.tag_store, [i \in 0..(len - 1) |-> FALSE])]

InitMatchers ==
    /\ pc = "matchers"
    /\ tagger \in {[word_store |-> WordStore, tag_store |-> ts] : ts \in TagStores}
    /\ regex_cache = <<>>
    /\ scanned = <<>>
    /\ scan = None
    /\ last = None
    /\ stack = <<>>
    /\ options = None
    /\ defs = <<>>
    /\ rules = <<>>
    /\ error = None
    /\ errors = <<>>
    /\ compiled = <<>>
    /\ result = None
    /\ warned = <<>>
    /\ parts = <<>>
    /\ composition = None

\* how many matchers have been compiled
Calls == IF IsSome(last) THEN Unwrap(last).n ELSE 0

\* TextMatcher::new(matcher, info)
NewTextMatcher ==
    /\ pc = "matchers"
    /\ Calls < MaxCalls
    /\ \E m \in TextMatchers :
          LET r == TextMatcher_new(m, tagger, regex_cache)
          IN /\ regex_cache' = r.cache
             /\ scanned' = IF r.lookup = "miss"
                           THEN Append(scanned, [matcher |-> m, set |-> r.set])
                           ELSE scanned
             /\ last' = Some([op |-> "text", n |-> Calls + 1,
                              matcher |-> m, set |-> r.set, lookup |-> r.lookup,
                              cache_before |-> regex_cache,
                              scanned_before |-> scanned])
    /\ UNCHANGED <<pc, tagger, scan, stack>>
    /\ UNCHANGED pipelineVars
    /\ UNCHANGED compVars

\* PosMatcher::new(matcher, info)
NewPosMatcher ==
    /\ pc = "matchers"
    /\ Calls < MaxCalls
    /\ \E m \in PosMatchers :
          last' = Some([op |-> "pos", n |-> Calls + 1,
                        matcher |-> m, mask |-> PosMatcher_new(m, tagger).mask,
                        cache_before |-> regex_cache,
                        scanned_before |-> scanned])
    /\ UNCHANGED <<pc, stack>>
    /\ UNCHANGED buildVars
    /\ UNCHANGED pipelineVars
    /\ UNCHANGED compVars

NextMatchers == NewTextMatcher \/ NewPosMatcher

SpecMatchers == InitMatchers /\ [][NextMatchers]_vars

----------------------------------------------------------------------------
(* TextMatcher::new, the vocabulary scan followed piece by piece *)

\* a word store small enough for every word to be a piece of its own
SmallWordStore == {<<EmptyText, 0>>, <<Word(1), 1>>, <<Word(2), 2>>}

\* the regex-backed matchers whose scan is followed
ScanMatchers ==
    {Matcher_new_regex(Regex("w1", 1, 1), FALSE, FALSE),
     Matcher_new_regex(Regex("w1", 1, 1), TRUE, FALSE),
     Matcher_new_regex(Regex("w1", 1, 1), TRUE, TRUE),
     Matcher_new_regex(Regex("w(1..101)", 1, 101), FALSE, FALSE)}

\* into_maybe_par_iter(): the entries are split into at most MaxChunks pieces
\* (one entry per piece when there are no more than MaxChunks entries), which
\* the workers evaluate in any order
Pieces(data) ==
    LET n == Cardinality(data)
        size == IF n <= MaxChunks THEN 1 ELSE (n + MaxChunks - 1) \div MaxChunks
    IN {piece \in {{q \in data : q[2] \div size = b} : b \in 0..n} : piece # {}}

\* filter_map(|(word, id)| if matcher.is_match(word) { Some(*id) } else { None })
FilterMap(m, piece) == {q[2] : q \in {r \in piece : IsMatch(m, r[1])}}

CollectKeepingLastPiece(set, ids) == ids

\* .collect() into a DefaultHashSet<u32>
Collect(set, ids) == set \cup ids

InitScan ==
    /\ pc = "scan"
    /\ tagger \in {[word_store |-> ws, tag_store |-> {}] : ws \in {WordStore, SmallWordStore}}
    /\ regex_cache = <<>>
    /\ scanned = <<>>
    /\ scan = None
    /\ last = None
    /\ stack = <<>>
    /\ options = None
    /\ defs = <<>>
    /\ rules = <<>>
    /\ error = None
    /\ errors = <<>>
    /\ compiled = <<>>
    /\ result = None
    /\ warned = <<>>
    /\ parts = <<>>
    /\ composition = None

\* TextMatcher::new up to the cache lookup: a hit returns, a miss starts the scan
ScanStart ==
    /\ pc = "scan"
    /\ scan = None
    /\ Calls < MaxScanCalls
    /\ \E m \in ScanMatchers :
          IF Hash(m) \in DOMAIN regex_cache
          THEN /\ last' = Some([op |-> "text", n |-> Calls + 1,
                                matcher |-> m, set |-> regex_cache[Hash(m)],
                                lookup |-> "hit",
                                cache_before |-> regex_cache,
                                scanned_before |-> scanned])
               /\ scan' = scan
          ELSE /\ scan' = Some([matcher |-> m,
                                pending |-> Pieces(tagger.word_store),
                                first |-> None,
                                set |-> {}])
               /\ last' = last
    /\ UNCHANGED <<pc, tagger, regex_cache, scanned, stack>>
    /\ UNCHANGED pipelineVars
    /\ UNCHANGED compVars

\* a worker evaluates the matcher on one piece and its ids are collected
ScanPiece ==
    /\ pc = "scan"
    /\ IsSome(scan)
    /\ \E piece \in Unwrap(scan).pending :
          scan' = Some([Unwrap(scan) EXCEPT
                          !.pending = @ \ {piece},
                          !.first = IF @ = None THEN Some(piece) ELSE @,
                          !.set = Collect(@, FilterMap(Unwrap(scan).matcher, piece))])
    /\ UNCHANGED <<pc, tagger, regex_cache, scanned, last, stack>>
    /\ UNCHANGED pipelineVars
    /\ UNCHANGED compVars

\* every piece is collected: the cutoff, the cache insertion and the return
ScanFinish ==
    /\ pc = "scan"
    /\ IsSome(scan)
    /\ Unwrap(scan).pending = {}
    /\ LET m == Unwrap(scan).matcher
           set == Cutoff(Unwrap(scan).set)
       IN /\ regex_cache' = Insert(regex_cache, Hash(m), set)
          /\ scanned' = Append(scanned, [matcher |-> m, set |-> set])
          /\ last' = Some([op |-> "text", n |-> Calls + 1,
                           matcher |-> m, set |-> set, lookup |-> "miss",
                           first |-> Unwrap(scan).first,
                           cache_before |-> regex_cache,
                           scanned_before |-> scanned])
    /\ scan' = None
    /\ UNCHANGED <<pc, tagger, stack>>
    /\ UNCHANGED pipelineVars
    /\ UNCHANGED compVars

NextScan == ScanStart \/ ScanPiece \/ ScanFinish

SpecScan == InitScan /\ [][NextScan]_vars

----------------------------------------------------------------------------
(* Properties of Tokenizer::from_xml *)

\* the definition failed to parse, or from_rule_structure returned Err for it
Failed(x) == x.tag = "Err" \/ (x.tag = "Ok" /\ IsSome(x.build))

FailedIdx == {i \in 1..Len(defs) : Failed(defs[i])}

\* the tagged message of a failed definition
TaggedMessage(x) ==
    IF x.tag = "Err" THEN <<"[Structure] ">> \o x.x
    ELSE <<"[Rule] ">> \o Unwrap(x.build)

\* rs lists exactly the definitions of idx, in their original order, each
\* under its resolved id
ListsExactly(rs, idx) ==
    /\ Len(rs) = Cardinality(idx)
    /\ {rs[k].src : k \in 1..Len(rs)} = idx
    /\ \A k \in 1..Len(rs) : \A l \in 1..Len(rs) : k < l => rs[k].src < rs[l].src
    /\ \A k \in 1..Len(rs) :
          \/ /\ IsSome(defs[rs[k].src].id)
             /\ rs[k].id = Unwrap(defs[rs[k].src].id)
          \/ /\ defs[rs[k].src].id = None
             /\ rs[k].id = Unwrap(defs[rs[k].src].group).id \o <<".">>
                           \o Display(Unwrap(defs[rs[k].src].group).n)

\* the ids/ignore_ids filter, stated on the definition at index i
PassesFilter(i) ==
    LET id == IF IsSome(defs[i].id) THEN Unwrap(defs[i].id)
              ELSE Unwrap(defs[i].group).id \o <<".">> \o Display(Unwrap(defs[i].group).n)
    IN /\ (options.ids # {} => id \in options.ids)
       /\ id \notin options.ignore_ids

\* indices strictly before the first failure whose definition passes the filter
BeforeFirstFailure ==
    {i \in 1..Len(defs) : (\A j \in 1..i : ~Failed(defs[j])) /\ PassesFilter(i)}

\* C1: with allow_errors = true the returned rule list is exactly, in original
\* order, the definitions strictly before the first failure that built and pass
\* the ids/ignore_ids filter; nothing located after the first failure is in it.
C1_TruncatedAtFirstFailure ==
    (pc = "returned" /\ options.allow_errors)
        => /\ Unwrap(result).tag = "Ok"
           /\ ListsExactly(Unwrap(result).rules, BeforeFirstFailure)

\* a later definition built successfully and passes the filter, yet it is left out
C1_Witness ==
    /\ pc = "returned" /\ options.allow_errors
    /\ Unwrap(result).rules # <<>>
    /\ \E i \in 1..Len(defs) : \E j \in 1..Len(defs) :
          /\ i < j /\ Failed(defs[i])
          /\ ~Failed(defs[j]) /\ PassesFilter(j)

\* C2: from_xml returns Err exactly when some definition failed to parse or to
\* build and allow_errors is false; otherwise it returns Ok with the rule list
\* built so far.
C2_ErrIffFailureDisallowed ==
    pc = "returned"
        => /\ (Unwrap(result).tag = "Err") <=> (FailedIdx # {} /\ ~options.allow_errors)
           /\ (Unwrap(result).tag = "Ok")  <=> (FailedIdx = {} \/ options.allow_errors)
           /\ Unwrap(result).tag = "Ok" => Unwrap(result).rules = rules

\* construction failed outright although some definitions had built
C2_Witness ==
    /\ pc = "returned"
    /\ Unwrap(result).tag = "Err"
    /\ rules # <<>>

\* the message of the last failure in sequence order
LastFailureMessage ==
    LET m == CHOOSE i \in FailedIdx : \A j \in FailedIdx : j <= i
    IN TaggedMessage(defs[m])

\* C3: the error state is a single slot overwritten by each new failure: the
\* retained and reported message is that of the last failure in sequence order,
\* tagged [Structure] for a parse failure and [Rule] for a build failure.
C3_LastFailureRetained ==
    /\ pc # "panicked" =>
          error = IF FailedIdx = {} THEN None ELSE Some(LastFailureMessage)
    /\ (pc = "returned" /\ FailedIdx # {}) =>
          IF options.allow_errors
          THEN warned = <<<<"Error constructing Disambiguator: ">> \o LastFailureMessage>>
          ELSE Unwrap(result).x = <<"Error constructing Disambiguator: ">> \o LastFailureMessage

\* two failures with different tagged messages have been processed
C3_Witness ==
    /\ pc = "returned"
    /\ \E i \in FailedIdx : \E j \in FailedIdx :
          /\ i < j
          /\ TaggedMessage(defs[i]) # TaggedMessage(defs[j])
          /\ \A k \in FailedIdx : k <= j

\* the definitions that reach from_rule_structure: they parsed and an id resolves
Compilable == {i \in 1..Len(defs) : defs[i].tag = "Ok" /\ HasId(defs[i])}

\* C4 as claimed: once a definition has failed, no later definition is compiled
\* and no later definition aborts the construction on a missing group.
C4_LaterNotAttempted ==
    /\ \A k \in 1..Len(compiled) : \A j \in 1..(compiled[k] - 1) : ~Failed(defs[j])
    /\ pc = "panicked" => \A j \in 1..(Len(defs) - 1) : ~Failed(defs[j])

\* C4 as amended: a failure does not stop the iteration. Every definition that
\* parsed and has an id is compiled, before or after a failure, in order; a
\* definition after a failure is only left out of the result.
C4_LaterAttemptedNotIncluded ==
    /\ Len(compiled) = Cardinality(Compilable)
    /\ {compiled[k] : k \in 1..Len(compiled)} = Compilable
    /\ \A k \in 1..Len(compiled) : \A l \in 1..Len(compiled) :
          k < l => compiled[k] < compiled[l]
    /\ \A k \in 1..Len(rules) : \A j \in 1..rules[k].src : ~Failed(defs[j])

\* a definition located after a failure has been compiled
C4_Witness ==
    \E k \in 1..Len(compiled) : \E j \in 1..(compiled[k] - 1) : Failed(defs[j])

----------------------------------------------------------------------------
(* Properties of Rules::from_xml *)

\* definitions that parsed and built and pass the filter, wherever they stand
BuiltAndAllowed ==
    {i \in 1..Len(defs) : ~Failed(defs[i]) /\ PassesFilter(i)}

\* how many failed definitions carry the tagged message m
Occurrences(m) == Cardinality({i \in FailedIdx : TaggedMessage(defs[i]) = m})

\* C5: Rules::from_xml never fails because of a parse or build failure, and a
\* failure never affects other rules: the returned list is exactly, in original
\* order, every definition that parsed, built and passes the filter, however
\* many failures stand before or after it; each failed definition increments
\* exactly one counter, keyed by its tagged message.
C5_FailuresCountedNeverFatal ==
    /\ pc = "returned" =>
          /\ Unwrap(result).tag = "Ok"
          /\ ListsExactly(Unwrap(result).rules, BuiltAndAllowed)
    /\ pc # "panicked" =>
          /\ DOMAIN errors = {TaggedMessage(defs[i]) : i \in FailedIdx}
          /\ \A m \in DOMAIN errors : errors[m] = Occurrences(m)
    /\ pc = "panicked" =>
          /\ defs[Len(defs)].tag = "Ok"
          /\ \/ ~HasId(defs[Len(defs)])
             \/ defs[Len(defs)].category = None
             \/ defs[Len(defs)].name = None

\* a rule is returned although failures stand before and after it, and one
\* message has been counted twice
C5_Witness ==
    /\ pc = "returned"
    /\ \E i \in FailedIdx : \E j \in FailedIdx : \E k \in 1..Len(Unwrap(result).rules) :
          /\ i < Unwrap(result).rules[k].src
          /\ Unwrap(result).rules[k].src < j
          /\ errors[TaggedMessage(defs[i])] = 2

\* the default attribute, as a string, of the rule, its group and its category
RuleDefault(x) == x.default
GroupDefault(x) == IF IsSome(x.group) THEN Unwrap(x.group).default ELSE None
CategoryDefault(x) == Unwrap(x.category).default

\* C6 as claimed: off if the rule's own default equals "off"; else, whatever
\* the rule's own default is, inherited from the group's default; else from the
\* category's default; else enabled.
C6_OffUnlessOwnDefaultOff ==
    \A k \in 1..Len(rules) :
        LET x == defs[rules[k].src]
        IN rules[k].on =
             ~( IF RuleDefault(x) = Some(<<"off">>) THEN TRUE
                ELSE IF IsSome(GroupDefault(x)) THEN GroupDefault(x) = Some(<<"off">>)
                ELSE IF IsSome(CategoryDefault(x)) THEN CategoryDefault(x) = Some(<<"off">>)
                ELSE FALSE )

\* C6 as amended: the rule is off if its own default attribute equals "off" and
\* on if it is set to anything else; only when the rule has no default
\* attribute is the state inherited from the group's default, else from the
\* category's default, else the rule is enabled. A rule with default unset in a
\* group whose default is "off" is disabled whatever the category's default is.
C6_FirstPresentDefaultDecides ==
    \A k \in 1..Len(rules) :
        LET x == defs[rules[k].src]
        IN /\ IsSome(RuleDefault(x)) =>
                 (rules[k].on <=> RuleDefault(x) # Some(<<"off">>))
           /\ (RuleDefault(x) = None /\ IsSome(GroupDefault(x))) =>
                 (rules[k].on <=> GroupDefault(x) # Some(<<"off">>))
           /\ (RuleDefault(x) = None /\ GroupDefault(x) = None
                                     /\ IsSome(CategoryDefault(x))) =>
                 (rules[k].on <=> CategoryDefault(x) # Some(<<"off">>))
           /\ (RuleDefault(x) = None /\ GroupDefault(x) = None
                                     /\ CategoryDefault(x) = None) =>
                 rules[k].on
           /\ (RuleDefault(x) = None /\ GroupDefault(x) = Some(<<"off">>)) =>
                 ~rules[k].on

\* a rule with default unset, in a group that is off, under a category that is on
C6_Witness ==
    \E k \in 1..Len(rules) :
        /\ RuleDefault(defs[rules[k].src]) = None
        /\ GroupDefault(defs[rules[k].src]) = Some(<<"off">>)
        /\ CategoryDefault(defs[rules[k].src]) = Some(<<"on">>)
        /\ ~rules[k].on

\* the failures recorded so far, whichever pipeline runs
Recorded ==
    IF error # None THEN {Unwrap(error)} ELSE DOMAIN errors

\* C7: in both pipelines the resolved id is the explicit id when present, even
\* if a group exists, otherwise "{group.id}.{group.n}"; with neither an explicit
\* id nor a group the construction aborts, and nothing is recorded for it.
C7_IdentityResolution ==
    /\ \A k \in 1..Len(rules) :
          LET x == defs[rules[k].src]
          IN /\ IsSome(x.id) => rules[k].id = Unwrap(x.id)
             /\ (x.id = None /\ x.group = Some([id |-> <<"G">>, n |-> 3,
                                               name |-> <<"group name">>,
                                               default |-> None]))
                   => rules[k].id = <<"G", ".", "3">>
    /\ \A i \in 1..Len(defs) :
          (defs[i].tag = "Ok" /\ defs[i].id = None /\ defs[i].group = None)
             => /\ pc = "panicked"
                /\ i = Len(defs)
                /\ result = None
                /\ \A k \in 1..Len(compiled) : compiled[k] # i
                /\ Recorded \subseteq
                      {TaggedMessage(defs[j]) : j \in FailedIdx \ {i}}

\* a rule named after its group next to a rule that has both an id and a group
C7_Witness ==
    \E k \in 1..Len(rules) : \E l \in 1..Len(rules) :
        /\ defs[rules[k].src].id = None
        /\ rules[k].id = <<"G", ".", "3">>
        /\ IsSome(defs[rules[l].src].id)
        /\ IsSome(defs[rules[l].src].group)
        /\ rules[l].id = <<"A">>

----------------------------------------------------------------------------
(* Properties of the atom algebra *)

RECURSIVE Subtrees(_)
RECURSIVE SubtreesOfAll(_)
\* an atom and all the atoms below it
Subtrees(a) == {a} \cup SubtreesOfAll(Children(a))
SubtreesOfAll(as) ==
    IF as = <<>> THEN {} ELSE Subtrees(Head(as)) \cup SubtreesOfAll(Tail(as))

\* every node of every atom built so far
AllNodes == SubtreesOfAll(stack)

\* C8: in every atom tree built through the smart constructors, every And node
\* has at least 2 children none of which is True, and every Or node has at
\* least 2 children none of which is False; And([]) is True, Or([]) is False,
\* And([a]) is a and Or([a]) is a.
C8_AndOrNormalized ==
    /\ \A a \in AllNodes :
          /\ a.kind = "AndAtom" =>
                /\ Len(a.atoms) >= 2
                /\ \A k \in 1..Len(a.atoms) : a.atoms[k] # [kind |-> "TrueAtom"]
          /\ a.kind = "OrAtom" =>
                /\ Len(a.atoms) >= 2
                /\ \A k \in 1..Len(a.atoms) : a.atoms[k] # [kind |-> "FalseAtom"]
    /\ IsSome(last) =>
          LET c == Unwrap(last)
          IN /\ (c.op = "and" /\ c.args = <<>>) => c.result = [kind |-> "TrueAtom"]
             /\ (c.op = "or" /\ c.args = <<>>) => c.result = [kind |-> "FalseAtom"]
             /\ (c.op \in {"and", "or"} /\ Len(c.args) = 1) => c.result = c.args[1]

\* an And node was built from a list that held a True
C8_Witness ==
    /\ IsSome(last)
    /\ Unwrap(last).op = "and"
    /\ Unwrap(last).result.kind = "AndAtom"
    /\ \E k \in 1..Len(Unwrap(last).args) : Unwrap(last).args[k] = [kind |-> "TrueAtom"]

\* C9 as claimed: no Not node wraps another Not, a True or a False.
C9_NotNeverWrapsNot ==
    \A a \in AllNodes :
        a.kind = "NotAtom" => a.atom.kind \notin {"NotAtom", "TrueAtom", "FalseAtom"}

\* C9 as amended: no Not node wraps a True or a False: Not(True) is False and
\* Not(False) is True; every other atom, a Not included, is wrapped as it is,
\* so Not(Not(a)) is built as a nested Not.
C9_NotNeverWrapsConstant ==
    /\ \A a \in AllNodes :
          a.kind = "NotAtom" => a.atom.kind \notin {"TrueAtom", "FalseAtom"}
    /\ (IsSome(last) /\ Unwrap(last).op = "not") =>
          LET c == Unwrap(last)
          IN /\ c.args[1] = [kind |-> "TrueAtom"] => c.result = [kind |-> "FalseAtom"]
             /\ c.args[1] = [kind |-> "FalseAtom"] => c.result = [kind |-> "TrueAtom"]
             /\ c.args[1].kind \notin {"TrueAtom", "FalseAtom"} =>
                   c.result = [kind |-> "NotAtom", atom |-> c.args[1]]

\* NotAtom::not has been applied to a True, and elsewhere a Not wraps a Not
C9_Witness ==
    /\ IsSome(last)
    /\ Unwrap(last).op = "not"
    /\ Unwrap(last).args[1] = [kind |-> "TrueAtom"]
    /\ \E a \in AllNodes : a.kind = "NotAtom" /\ a.atom.kind = "NotAtom"

----------------------------------------------------------------------------
(* Properties of Composition::new *)

\* the 0-based indices of the visible parts
VisibleIndices == {i \in 0..(Len(parts) - 1) : parts[i + 1].visible}

\* the 0-based index of the k-th visible part, k >= 1
VisibleIndex(k) ==
    CHOOSE i \in VisibleIndices : Cardinality({j \in VisibleIndices : j < i}) = k - 1

\* the parts are [visible, invisible, visible]
VisibleInvisibleVisible ==
    /\ Len(parts) = 3
    /\ parts[1].visible /\ ~parts[2].visible /\ parts[3].visible

\* C10 as claimed: group 0 maps to the whole composition and the k-th visible
\* part receives group id k mapped to that part's index; for parts [visible,
\* invisible, visible] group 1 maps to 0 and group 2 maps to 2.
C10_GroupMapsToPartIndex ==
    pc = "composed" =>
        LET g == Unwrap(composition).group_ids_to_idx
        IN /\ DOMAIN g = 0..Cardinality(VisibleIndices)
           /\ g[0] = 0
           /\ \A k \in 1..Cardinality(VisibleIndices) : g[k] = VisibleIndex(k)
           /\ VisibleInvisibleVisible => (g[1] = 0 /\ g[2] = 2)

\* C10 as amended: group 0 maps to 0, which stands for the whole composition,
\* and the k-th visible part receives group id k mapped to that part's index
\* plus one; invisible parts receive no group id. For parts [visible,
\* invisible, visible] group 1 maps to 1 (part index 0) and group 2 maps to 3
\* (part index 2).
C10_GroupMapsToPartIndexPlusOne ==
    pc = "composed" =>
        LET g == Unwrap(composition).group_ids_to_idx
        IN /\ DOMAIN g = 0..Cardinality(VisibleIndices)
           /\ g[0] = 0
           /\ \A k \in 1..Cardinality(VisibleIndices) : g[k] = VisibleIndex(k) + 1
           /\ VisibleInvisibleVisible => (g[1] = 1 /\ g[2] = 3)

\* a composition of [visible, invisible, visible] has been built
C10_Witness ==
    /\ pc = "composed"
    /\ VisibleInvisibleVisible
    /\ DOMAIN Unwrap(composition).group_ids_to_idx = {0, 1, 2}

\* the quantifier.min of each part, in part order
Mins == [p \in 1..Len(parts) |-> parts[p].quantifier.min]

\* C11: for every part list and every index i, can_stop_mask[i] is true if and
\* only if every part at index >= i has quantifier.min == 0, and the mask has
\* exactly one entry per part.
C11_CanStopIffSuffixOptional ==
    pc = "composed" =>
        LET mask == Unwrap(composition).can_stop_mask
        IN /\ Len(mask) = Len(parts)
           /\ \A i \in 0..(Len(parts) - 1) :
                 mask[i + 1] <=> ~(\E j \in i..(Len(parts) - 1) : Mins[j + 1] > 0)

\* an optional part stands before a mandatory one, which stands before an
\* optional one
C11_Witness ==
    /\ pc = "composed"
    /\ Len(parts) = 3
    /\ Mins[1] = 0 /\ Mins[2] > 0 /\ Mins[3] = 0
    /\ Unwrap(composition).can_stop_mask[3]

\* C12 as claimed: for quantifier.min values [1,0,0] the mask is [false, true,
\* true]; for [0,0,0] it is [true, true, true]; for [0,1,0] it is [true,
\* false, true].
C12_MaskExamples ==
    pc = "composed" =>
        LET mask == Unwrap(composition).can_stop_mask
        IN /\ Mins = <<1, 0, 0>> => mask = <<FALSE, TRUE, TRUE>>
           /\ Mins = <<0, 0, 0>> => mask = <<TRUE, TRUE, TRUE>>
           /\ Mins = <<0, 1, 0>> => mask = <<TRUE, FALSE, TRUE>>

\* C12 as amended: for quantifier.min values [1,0,0] the mask is [false, true,
\* true]; for [0,0,0] it is [true, true, true]; for [0,1,0] it is [false,
\* false, true], the mandatory part at index 1 being at an index >= 0.
C12_MaskExamplesSuffix ==
    pc = "composed" =>
        LET mask == Unwrap(composition).can_stop_mask
        IN /\ Mins = <<1, 0, 0>> => mask = <<FALSE, TRUE, TRUE>>
           /\ Mins = <<0, 0, 0>> => mask = <<TRUE, TRUE, TRUE>>
           /\ Mins = <<0, 1, 0>> => mask = <<FALSE, FALSE, TRUE>>

\* a composition with quantifier.min values [0,1,0] has been built
C12_Witness ==
    /\ pc = "composed"
    /\ Mins = <<0, 1, 0>>
    /\ Len(Unwrap(composition).can_stop_mask) = 3

\* the last call of Quantifier::new, if there was one
QuantifierCall == IF IsSome(last) /\ Unwrap(last).op = "quantifier"
                  THEN Some(Unwrap(last).args) ELSE None

\* C16: Quantifier::new(min, max) fails fatally whenever max < min and succeeds
\* with exactly {min, max} whenever max >= min, max == min and min == 0
\* included; hence every constructed Quantifier satisfies max >= min.
C16_QuantifierValidity ==
    /\ \A p \in 1..Len(parts) : parts[p].quantifier.max >= parts[p].quantifier.min
    /\ IsSome(QuantifierCall) =>
          LET min == Unwrap(QuantifierCall)[1]
              max == Unwrap(QuantifierCall)[2]
          IN /\ max < min => pc = "panicked"
             /\ max >= min =>
                   /\ pc # "panicked"
                   /\ parts # <<>>
                   /\ parts[Len(parts)].quantifier = [min |-> min, max |-> max]
    /\ pc = "panicked" =>
          /\ IsSome(QuantifierCall)
          /\ Unwrap(QuantifierCall)[2] < Unwrap(QuantifierCall)[1]

\* a Quantifier with max == min > 0 was built after one with min == 0
C16_Witness ==
    /\ pc = "parts"
    /\ Len(parts) >= 2
    /\ parts[1].quantifier.min = 0
    /\ IsSome(QuantifierCall)
    /\ Unwrap(QuantifierCall)[1] = Unwrap(QuantifierCall)[2]
    /\ Unwrap(QuantifierCall)[1] > 0

\* C17: for every definition that parsed and whose id resolves, a missing
\* category aborts Rules::from_xml instead of being counted: the abort comes
\* before the rule is compiled and before filtering, so it happens even for a
\* rule whose id is excluded or whose build would have failed.
C17_MissingCategoryAborts ==
    \A i \in 1..Len(defs) :
        (defs[i].tag = "Ok" /\ HasId(defs[i]) /\ defs[i].category = None)
           => /\ pc = "panicked"
              /\ i = Len(defs)
              /\ result = None
              /\ \A k \in 1..Len(compiled) : compiled[k] # i
              /\ \A k \in 1..Len(rules) : rules[k].src # i
              /\ DOMAIN errors = {TaggedMessage(defs[j]) : j \in FailedIdx \ {i}}
              /\ \A m \in DOMAIN errors :
                    errors[m] = Cardinality({j \in FailedIdx \ {i} :
                                                TaggedMessage(defs[j]) = m})

\* the construction aborted on a definition without category whose build would
\* have failed and whose id the filter excludes
C17_Witness ==
    /\ pc = "panicked"
    /\ Len(defs) >= 2
    /\ LET x == defs[Len(defs)]
       IN /\ x.tag = "Ok" /\ HasId(x) /\ x.category = None
          /\ IsSome(x.build)
          /\ ~PassesFilter(Len(defs))
    /\ DOMAIN errors # {}

\* C20: the first level that has a default attribute at all decides alone: a
\* rule whose own default is present and not "off" is enabled even when its
\* group's or category's default is "off", and a group default that is present
\* and not "off" overrides a category default of "off".
C20_PresentDefaultOverrides ==
    \A k \in 1..Len(rules) :
        LET x == defs[rules[k].src]
        IN /\ (IsSome(RuleDefault(x)) /\ RuleDefault(x) # Some(<<"off">>)) => rules[k].on
           /\ (RuleDefault(x) = None /\ IsSome(GroupDefault(x))
                                     /\ GroupDefault(x) # Some(<<"off">>)) => rules[k].on

\* a rule that is on by its own default in a group and a category that are off
C20_Witness ==
    \E k \in 1..Len(rules) :
        /\ RuleDefault(defs[rules[k].src]) = Some(<<"on">>)
        /\ GroupDefault(defs[rules[k].src]) = Some(<<"off">>)
        /\ CategoryDefault(defs[rules[k].src]) = Some(<<"off">>)
        /\ rules[k].on

----------------------------------------------------------------------------
(* Properties of TextMatcher::new and PosMatcher::new *)

\* the last call, when it was TextMatcher::new or PosMatcher::new
TextCall == IsSome(last) /\ Unwrap(last).op = "text"
PosCall == IsSome(last) /\ Unwrap(last).op = "pos"

\* the matcher is regex-backed, index-backed
IsRegexBacked(m) == m.matcher.either = "Right"
IsIndexBacked(m) == m.matcher.either = "Left" /\ "right" \in DOMAIN m.matcher.left

\* the (pattern, negate, empty_always_false) signature of a regex-backed matcher
Signature(m) == <<m.matcher.right.pattern, m.negate, m.empty_always_false>>

\* the ids of all vocabulary words for which Matcher::is_match holds
MatchingIds(m) ==
    {id \in {q[2] : q \in tagger.word_store} :
        \E q \in tagger.word_store : q[2] = id /\ IsMatch(m, q[1])}

\* C13: for a regex-backed matcher compiled on a cache miss, the set is None if
\* the matcher matches more than 100 vocabulary ids, and otherwise (100 or
\* fewer, exactly 100 and zero included) exactly the set of ids of the words
\* for which is_match holds; the same value is what the cache stores.
C13_CutoffAboveHundred ==
    (TextCall /\ Unwrap(last).lookup = "miss") =>
        LET c == Unwrap(last)
            ids == MatchingIds(c.matcher)
        IN /\ IsRegexBacked(c.matcher)
           /\ Cardinality(ids) > 100 => c.set = None
           /\ Cardinality(ids) <= 100 => c.set = Some(ids)
           /\ \E h \in DOMAIN regex_cache :
                 /\ DOMAIN regex_cache = DOMAIN c.cache_before \cup {h}
                 /\ h \notin DOMAIN c.cache_before
                 /\ regex_cache[h] = c.set

\* a matcher of exactly 100 ids was compiled to a set, after one of more than
\* 100 ids had been compiled to None
C13_Witness ==
    /\ TextCall /\ Unwrap(last).lookup = "miss"
    /\ Cardinality(MatchingIds(Unwrap(last).matcher)) = 100
    /\ IsSome(Unwrap(last).set)
    /\ \E h \in DOMAIN regex_cache : regex_cache[h] = None

\* C14: the vocabulary is scanned at most once per distinct (pattern, negate,
\* empty_always_false) signature; a later call with an equal signature returns
\* the set of the first call, a cached None included, without scanning again
\* and leaves the cache unchanged; cache entries are never removed or
\* overwritten.
C14_CacheHitIsPure ==
    /\ \A k \in 1..Len(scanned) : \A l \in 1..Len(scanned) :
          Signature(scanned[k].matcher) = Signature(scanned[l].matcher) => k = l
    /\ IsSome(last) =>
          \A h \in DOMAIN Unwrap(last).cache_before :
             h \in DOMAIN regex_cache /\ regex_cache[h] = Unwrap(last).cache_before[h]
    /\ (TextCall /\ IsRegexBacked(Unwrap(last).matcher)) =>
          LET c == Unwrap(last)
              earlier == {k \in 1..Len(c.scanned_before) :
                            Signature(c.scanned_before[k].matcher) = Signature(c.matcher)}
          IN earlier # {} =>
                /\ c.lookup = "hit"
                /\ \A k \in earlier : c.set = c.scanned_before[k].set
                /\ regex_cache = c.cache_before
                /\ scanned = c.scanned_before

\* an equal signature was compiled again and got the cached None of the cutoff
\* back, other signatures having been scanned in between
C14_Witness ==
    /\ TextCall
    /\ Unwrap(last).lookup = "hit"
    /\ Unwrap(last).set = None
    /\ Len(scanned) >= 2
    /\ Signature(scanned[1].matcher) = Signature(Unwrap(last).matcher)

\* C15: PosMatcher::new precomputes completely, without cutoff: the mask has as
\* many entries as the tag store, and for every (tag string, tag id) pair of
\* the tag store mask[tag id] equals is_match(tag string).
C15_PosMaskComplete ==
    PosCall =>
        LET c == Unwrap(last)
        IN /\ DOMAIN c.mask = 0..(Cardinality(tagger.tag_store) - 1)
           /\ \A q \in tagger.tag_store : c.mask[q[2]] = IsMatch(c.matcher, q[1])

\* a mask of three tags of which some match and some do not
C15_Witness ==
    /\ PosCall
    /\ Cardinality(tagger.tag_store) = 3
    /\ \E i \in DOMAIN Unwrap(last).mask : Unwrap(last).mask[i]
    /\ \E i \in DOMAIN Unwrap(last).mask : ~Unwrap(last).mask[i]

\* C19: TextMatcher::new on a matcher that is not regex-backed (index mode, for
\* which needs_graph() is true, or a literal string, for which it is false)
\* yields a set of None and neither reads nor modifies the regex cache;
\* needs_graph() is true exactly for index-mode matchers.
C19_NonRegexLeavesCacheAlone ==
    TextCall =>
        LET c == Unwrap(last)
        IN /\ NeedsGraph(c.matcher) <=> IsIndexBacked(c.matcher)
           /\ ~IsRegexBacked(c.matcher) =>
                 /\ c.set = None
                 /\ c.lookup = "none"
                 /\ regex_cache = c.cache_before
                 /\ scanned = c.scanned_before

\* a literal string matcher was compiled while the cache held entries
C19_Witness ==
    /\ TextCall
    /\ ~IsRegexBacked(Unwrap(last).matcher)
    /\ ~IsIndexBacked(Unwrap(last).matcher)
    /\ Unwrap(last).set = None
    /\ DOMAIN regex_cache # {}

\* the ids of the entries of a set of pieces
IdsOf(pieces) == {q[2] : q \in UNION pieces}

\* C18: the data-parallel vocabulary scan is order-independent: for a fixed
\* matcher and vocabulary, whatever the order in which the entries are
\* evaluated, the collected id set is the same, hence also the cutoff decision
\* and the value inserted into the cache.
C18_ScanOrderIndependent ==
    /\ IsSome(scan) =>
          LET c == Unwrap(scan)
          IN c.set = MatchingIds(c.matcher)
                       \ IdsOf(c.pending)
    /\ (TextCall /\ Unwrap(last).lookup = "miss") =>
          LET c == Unwrap(last)
              ids == MatchingIds(c.matcher)
          IN /\ c.set = IF Cardinality(ids) > 100 THEN None ELSE Some(ids)
             /\ \E h \in DOMAIN regex_cache :
                   /\ h \notin DOMAIN c.cache_before
                   /\ regex_cache[h] = c.set

\* a scan that did not begin with the piece of the lowest ids ended in the
\* cutoff
C18_Witness ==
    /\ TextCall /\ Unwrap(last).lookup = "miss"
    /\ Unwrap(last).set = None
    /\ IsSome(Unwrap(last).first)
    /\ \A q \in Unwrap(Unwrap(last).first) : q[2] > 0

====
